---------------------------- MODULE Spec2Model ----------------------------
(***************************************************************************)
(* phpToro embedding bridge: the phptoro() dispatch function               *)
(* (ext/phptoro_ext.c) and the branded phpinfo() override                  *)
(* (phptoro_phpinfo.c).                                                    *)
(*                                                                         *)
(* PHP strings are byte sequences that carry their length and may hold the *)
(* byte 0; a C string is what such a buffer reads as up to the first byte  *)
(* 0.  Bytes are their ASCII codes.                                        *)
(***************************************************************************)
EXTENDS Integers, Sequences, FiniteSets, TLC

VARIABLES
    g_call_fn,        \* the static callback pointer of phptoro_ext.c:15
    sapi_module,      \* the fields of sapi_module that the bridge sets
    started,          \* php_module_startup() has completed
    function_table,   \* CG(function_table): the entries "phptoro" and "phpinfo"
    ob_level,         \* number of output buffers active between script calls
    preparedEarly,    \* history: phptoro_ext_prepare() ran before startup
    preparedLate,     \* history: phptoro_ext_prepare() ran after startup
    startupSlot,      \* history: the value of g_call_fn when startup completed
    reinstalled,      \* history: install() ran on an already overridden entry
    last              \* what the most recent operation did (observation record)

vars == << g_call_fn, sapi_module, started, function_table, ob_level,
           preparedEarly, preparedLate, startupSlot, reinstalled, last >>

----------------------------------------------------------------------------
(* Bounds of the model.                                                    *)

MaxStrLen == 2      \* longest command / payload / callback result
MaxChunks == 3      \* captured phpinfo output is built of at most this many chunks
MaxObLevel == 1     \* output buffers a script may have open around a call

----------------------------------------------------------------------------
(* Byte strings.                                                           *)

NULL == "NULL"

\* Bytes the inputs are built from: NUL and the letter 'a'.
ByteVals == { 0, 97 }

RECURSIVE StrUpTo(_, _)
StrUpTo(S, n) ==
    IF n = 0 THEN { << >> }
    ELSE LET shorter == StrUpTo(S, n - 1)
         IN  shorter \cup { Append(s, b) : s \in { t \in shorter : Len(t) = n - 1 }, b \in S }

\* PHP string values a script can pass (binary safe).
PhpStrings == StrUpTo(ByteVals, MaxStrLen)

\* C strings a native callback can return (no embedded NUL).
CStrings == StrUpTo(ByteVals \ { 0 }, MaxStrLen)

\* strlen(): number of bytes before the first NUL of the buffer (every PHP
\* string buffer is followed by a terminating NUL).
strlen(s) ==
    IF \E i \in 1..Len(s) : s[i] = 0
    THEN (CHOOSE i \in 1..Len(s) : s[i] = 0 /\ \A j \in 1..(i - 1) : s[j] # 0) - 1
    ELSE Len(s)

\* What a callee holding only a char pointer to the buffer reads.
CStr(s) == SubSeq(s, 1, strlen(s))

\* Does needle occur in s at 1-based position i?
OccursAt(s, needle, i) ==
    /\ i >= 1
    /\ i + Len(needle) - 1 <= Len(s)
    /\ SubSeq(s, i, i + Len(needle) - 1) = needle

\* strstr(hay, needle): 1-based position of the first occurrence of needle in
\* the C string hay (the scan stops at the first NUL), 0 for a NULL result.
strstr(hay, needle) ==
    LET h == CStr(hay)
    IN  IF \E i \in 1..Len(h) : OccursAt(h, needle, i)
        THEN CHOOSE i \in 1..Len(h) :
                 /\ OccursAt(h, needle, i)
                 /\ \A j \in 1..(i - 1) : ~OccursAt(h, needle, j)
        ELSE 0

\* The literal "{}" of phptoro_ext.c:95.
EmptyJson == << 123, 125 >>

\* The literal "</style>" of phptoro_phpinfo.c:82.
StyleEnd == << 60, 47, 115, 116, 121, 108, 101, 62 >>

\* static const char PHPTORO_CSS[] (phptoro_phpinfo.c:17-50), byte for byte;
\* Len(PHPTORO_CSS) is sizeof(PHPTORO_CSS) - 1.
PHPTORO_CSS ==
   << 60, 47, 115, 116, 121, 108, 101, 62, 10, 60, 115, 116, 121, 108, 101, 62, 10, 58, 114, 111, 111, 116, 32, 123,
      32, 45, 45, 116, 111, 114, 111, 58, 32, 35, 97, 50, 48, 48, 48, 57, 59, 32, 45, 45, 116, 111, 114, 111,
      45, 108, 105, 103, 104, 116, 58, 32, 35, 102, 53, 100, 48, 100, 50, 59, 32, 45, 45, 116, 111, 114, 111, 45,
      100, 97, 114, 107, 58, 32, 35, 54, 98, 48, 48, 48, 54, 59, 32, 125, 10, 98, 111, 100, 121, 32, 123, 32,
      98, 97, 99, 107, 103, 114, 111, 117, 110, 100, 45, 99, 111, 108, 111, 114, 58, 32, 35, 102, 102, 102, 59, 32,
      99, 111, 108, 111, 114, 58, 32, 35, 50, 50, 50, 59, 32, 102, 111, 110, 116, 45, 102, 97, 109, 105, 108, 121,
      58, 32, 115, 97, 110, 115, 45, 115, 101, 114, 105, 102, 59, 32, 125, 10, 112, 114, 101, 32, 123, 32, 109, 97,
      114, 103, 105, 110, 58, 32, 48, 59, 32, 102, 111, 110, 116, 45, 102, 97, 109, 105, 108, 121, 58, 32, 109, 111,
      110, 111, 115, 112, 97, 99, 101, 59, 32, 125, 10, 97, 32, 123, 32, 99, 111, 108, 111, 114, 58, 32, 118, 97,
      114, 40, 45, 45, 116, 111, 114, 111, 41, 59, 32, 125, 10, 97, 58, 104, 111, 118, 101, 114, 32, 123, 32, 116,
      101, 120, 116, 45, 100, 101, 99, 111, 114, 97, 116, 105, 111, 110, 58, 32, 110, 111, 110, 101, 59, 32, 125, 10,
      116, 97, 98, 108, 101, 32, 123, 32, 98, 111, 114, 100, 101, 114, 45, 99, 111, 108, 108, 97, 112, 115, 101, 58,
      32, 99, 111, 108, 108, 97, 112, 115, 101, 59, 32, 98, 111, 114, 100, 101, 114, 58, 32, 48, 59, 32, 119, 105,
      100, 116, 104, 58, 32, 57, 51, 52, 112, 120, 59, 32, 98, 111, 120, 45, 115, 104, 97, 100, 111, 119, 58, 32,
      49, 112, 120, 32, 50, 112, 120, 32, 51, 112, 120, 32, 114, 103, 98, 97, 40, 48, 44, 48, 44, 48, 44, 46,
      50, 41, 59, 32, 125, 10, 46, 99, 101, 110, 116, 101, 114, 32, 123, 32, 116, 101, 120, 116, 45, 97, 108, 105,
      103, 110, 58, 32, 99, 101, 110, 116, 101, 114, 59, 32, 125, 10, 46, 99, 101, 110, 116, 101, 114, 32, 116, 97,
      98, 108, 101, 32, 123, 32, 109, 97, 114, 103, 105, 110, 58, 32, 49, 101, 109, 32, 97, 117, 116, 111, 59, 32,
      116, 101, 120, 116, 45, 97, 108, 105, 103, 110, 58, 32, 108, 101, 102, 116, 59, 32, 125, 10, 46, 99, 101, 110,
      116, 101, 114, 32, 116, 104, 32, 123, 32, 116, 101, 120, 116, 45, 97, 108, 105, 103, 110, 58, 32, 99, 101, 110,
      116, 101, 114, 32, 33, 105, 109, 112, 111, 114, 116, 97, 110, 116, 59, 32, 125, 10, 116, 100, 44, 32, 116, 104,
      32, 123, 32, 98, 111, 114, 100, 101, 114, 58, 32, 49, 112, 120, 32, 115, 111, 108, 105, 100, 32, 35, 57, 57,
      57, 59, 32, 102, 111, 110, 116, 45, 115, 105, 122, 101, 58, 32, 55, 53, 37, 59, 32, 118, 101, 114, 116, 105,
      99, 97, 108, 45, 97, 108, 105, 103, 110, 58, 32, 98, 97, 115, 101, 108, 105, 110, 101, 59, 32, 112, 97, 100,
      100, 105, 110, 103, 58, 32, 52, 112, 120, 32, 53, 112, 120, 59, 32, 125, 10, 116, 104, 32, 123, 32, 112, 111,
      115, 105, 116, 105, 111, 110, 58, 32, 115, 116, 105, 99, 107, 121, 59, 32, 116, 111, 112, 58, 32, 48, 59, 32,
      98, 97, 99, 107, 103, 114, 111, 117, 110, 100, 58, 32, 105, 110, 104, 101, 114, 105, 116, 59, 32, 125, 10, 104,
      49, 32, 123, 32, 102, 111, 110, 116, 45, 115, 105, 122, 101, 58, 32, 49, 53, 48, 37, 59, 32, 99, 111, 108,
      111, 114, 58, 32, 118, 97, 114, 40, 45, 45, 116, 111, 114, 111, 41, 59, 32, 125, 10, 104, 50, 32, 123, 32,
      102, 111, 110, 116, 45, 115, 105, 122, 101, 58, 32, 49, 50, 53, 37, 59, 32, 99, 111, 108, 111, 114, 58, 32,
      118, 97, 114, 40, 45, 45, 116, 111, 114, 111, 41, 59, 32, 125, 10, 104, 50, 32, 62, 32, 97, 32, 123, 32,
      116, 101, 120, 116, 45, 100, 101, 99, 111, 114, 97, 116, 105, 111, 110, 58, 32, 110, 111, 110, 101, 59, 32, 125,
      10, 104, 50, 32, 62, 32, 97, 58, 104, 111, 118, 101, 114, 32, 123, 32, 116, 101, 120, 116, 45, 100, 101, 99,
      111, 114, 97, 116, 105, 111, 110, 58, 32, 117, 110, 100, 101, 114, 108, 105, 110, 101, 59, 32, 125, 10, 46, 112,
      32, 123, 32, 116, 101, 120, 116, 45, 97, 108, 105, 103, 110, 58, 32, 108, 101, 102, 116, 59, 32, 125, 10, 46,
      101, 32, 123, 32, 98, 97, 99, 107, 103, 114, 111, 117, 110, 100, 45, 99, 111, 108, 111, 114, 58, 32, 118, 97,
      114, 40, 45, 45, 116, 111, 114, 111, 45, 108, 105, 103, 104, 116, 41, 59, 32, 119, 105, 100, 116, 104, 58, 32,
      51, 48, 48, 112, 120, 59, 32, 102, 111, 110, 116, 45, 119, 101, 105, 103, 104, 116, 58, 32, 98, 111, 108, 100,
      59, 32, 125, 10, 46, 104, 32, 123, 32, 98, 97, 99, 107, 103, 114, 111, 117, 110, 100, 45, 99, 111, 108, 111,
      114, 58, 32, 118, 97, 114, 40, 45, 45, 116, 111, 114, 111, 41, 59, 32, 99, 111, 108, 111, 114, 58, 32, 35,
      102, 102, 102, 59, 32, 102, 111, 110, 116, 45, 119, 101, 105, 103, 104, 116, 58, 32, 98, 111, 108, 100, 59, 32,
      125, 10, 46, 118, 32, 123, 32, 98, 97, 99, 107, 103, 114, 111, 117, 110, 100, 45, 99, 111, 108, 111, 114, 58,
      32, 35, 102, 48, 102, 48, 102, 48, 59, 32, 109, 97, 120, 45, 119, 105, 100, 116, 104, 58, 32, 51, 48, 48,
      112, 120, 59, 32, 111, 118, 101, 114, 102, 108, 111, 119, 45, 120, 58, 32, 97, 117, 116, 111, 59, 32, 119, 111,
      114, 100, 45, 119, 114, 97, 112, 58, 32, 98, 114, 101, 97, 107, 45, 119, 111, 114, 100, 59, 32, 125, 10, 46,
      118, 32, 105, 32, 123, 32, 99, 111, 108, 111, 114, 58, 32, 35, 57, 57, 57, 59, 32, 125, 10, 105, 109, 103,
      32, 123, 32, 102, 108, 111, 97, 116, 58, 32, 114, 105, 103, 104, 116, 59, 32, 98, 111, 114, 100, 101, 114, 58,
      32, 48, 59, 32, 125, 10, 104, 114, 32, 123, 32, 119, 105, 100, 116, 104, 58, 32, 57, 51, 52, 112, 120, 59,
      32, 98, 97, 99, 107, 103, 114, 111, 117, 110, 100, 45, 99, 111, 108, 111, 114, 58, 32, 35, 100, 100, 100, 59,
      32, 98, 111, 114, 100, 101, 114, 58, 32, 48, 59, 32, 104, 101, 105, 103, 104, 116, 58, 32, 49, 112, 120, 59,
      32, 125, 10, 64, 109, 101, 100, 105, 97, 32, 40, 112, 114, 101, 102, 101, 114, 115, 45, 99, 111, 108, 111, 114,
      45, 115, 99, 104, 101, 109, 101, 58, 32, 100, 97, 114, 107, 41, 32, 123, 10, 32, 32, 98, 111, 100, 121, 32,
      123, 32, 98, 97, 99, 107, 103, 114, 111, 117, 110, 100, 58, 32, 35, 49, 97, 49, 97, 49, 97, 59, 32, 99,
      111, 108, 111, 114, 58, 32, 35, 101, 48, 101, 48, 101, 48, 59, 32, 125, 10, 32, 32, 46, 104, 32, 116, 100,
      44, 32, 116, 100, 46, 101, 44, 32, 116, 104, 32, 123, 32, 98, 111, 114, 100, 101, 114, 45, 99, 111, 108, 111,
      114, 58, 32, 35, 53, 53, 53, 59, 32, 125, 10, 32, 32, 116, 100, 32, 123, 32, 98, 111, 114, 100, 101, 114,
      45, 99, 111, 108, 111, 114, 58, 32, 35, 52, 52, 52, 59, 32, 125, 10, 32, 32, 46, 101, 32, 123, 32, 98,
      97, 99, 107, 103, 114, 111, 117, 110, 100, 45, 99, 111, 108, 111, 114, 58, 32, 35, 51, 100, 49, 48, 49, 50,
      59, 32, 99, 111, 108, 111, 114, 58, 32, 118, 97, 114, 40, 45, 45, 116, 111, 114, 111, 45, 108, 105, 103, 104,
      116, 41, 59, 32, 125, 10, 32, 32, 46, 104, 32, 123, 32, 98, 97, 99, 107, 103, 114, 111, 117, 110, 100, 45,
      99, 111, 108, 111, 114, 58, 32, 118, 97, 114, 40, 45, 45, 116, 111, 114, 111, 45, 100, 97, 114, 107, 41, 59,
      32, 99, 111, 108, 111, 114, 58, 32, 35, 102, 102, 102, 59, 32, 125, 10, 32, 32, 46, 118, 32, 123, 32, 98,
      97, 99, 107, 103, 114, 111, 117, 110, 100, 45, 99, 111, 108, 111, 114, 58, 32, 35, 49, 97, 49, 97, 49, 97,
      59, 32, 125, 10, 32, 32, 104, 114, 32, 123, 32, 98, 97, 99, 107, 103, 114, 111, 117, 110, 100, 45, 99, 111,
      108, 111, 114, 58, 32, 35, 52, 52, 52, 59, 32, 125, 10, 32, 32, 104, 49, 44, 32, 104, 50, 44, 32, 97,
      32, 123, 32, 99, 111, 108, 111, 114, 58, 32, 35, 101, 48, 53, 48, 54, 48, 59, 32, 125, 10, 125, 10 >>

----------------------------------------------------------------------------
(* Values exchanged with the runtime.                                      *)

\* A zval, as far as the bridge looks at it: its type tag, its string bytes
\* (type "string") and its integer (type "long").
Zval(t, s, n) == [ type |-> t, str |-> s, lval |-> n ]
ZString(s) == Zval("string", s, 0)
ZLong(n)   == Zval("long", << >>, n)
ZArray     == Zval("array", << >>, 0)
ZFalse     == Zval("false", << >>, 0)
ZTrue      == Zval("true", << >>, 0)
ZUndef     == Zval("undef", << >>, 0)

\* A char pointer returned by the native callback: NULL, or a heap C string.
CNull      == [ null |-> TRUE,  bytes |-> << >> ]
CHeap(s)   == [ null |-> FALSE, bytes |-> s ]
CbResults  == { CNull } \cup { CHeap(s) : s \in CStrings }

\* The native callbacks the host may register.
Callbacks  == { "cb1", "cb2" }

\* Argument values a script may pass to phptoro().
PhptoroArgVals == { ZString(s) : s \in PhpStrings } \cup { ZArray }

----------------------------------------------------------------------------
(* PHP_FUNCTION(phptoro), phptoro_ext.c:77-104.                            *)
(*                                                                         *)
(* The handler runs on an execution record x:                              *)
(*   status   "ok", or the exception the argument parser threw             *)
(*   retval   return_value                                                 *)
(*   warnings php_error_docref() messages, in order                        *)
(*   log      the handler's steps on the slot and on the result buffer    *)
(*   cbCalls  the calls made through g_call_fn: the callback and the two   *)
(*            buffers its pointer arguments designate                      *)
(*   buf      the buffer the callback returned: its bytes, whether it is   *)
(*            still allocated, and how many times it was passed to free()  *)
(***************************************************************************)

NoBuf == [ bytes |-> << >>, live |-> FALSE, frees |-> 0 ]

NewExec ==
    [ status |-> "ok", retval |-> ZUndef, warnings |-> << >>, log |-> << >>,
      cbCalls |-> << >>, buf |-> NoBuf ]

\* ZEND_PARSE_PARAMETERS_START(min, max) ... END with the given parameter
\* types (Z_PARAM_STRING / Z_PARAM_LONG): "ok" or the exception thrown.
ParseParameters(args, min, max, types) ==
    IF Len(args) < min \/ Len(args) > max THEN "ArgumentCountError"
    ELSE IF \E i \in 1..Len(args) : args[i].type # types[i] THEN "TypeError"
    ELSE "ok"

\* Mutant: the diagnostic is dropped.
php_error_docref_Silent(x, msg) == x

\* php_error_docref(NULL, E_WARNING, msg)
php_error_docref(x, msg) == [ x EXCEPT !.warnings = Append(@, msg) ]

\* result = g_call_fn(command, json): the callback runs once on the two
\* pointers and hands back cbret.
CallNative(x, fn, command, json, cbret) ==
    [ x EXCEPT !.log = Append(@, "call"),
               !.cbCalls = Append(@, [ fn |-> fn, cmd |-> command, json |-> json ]),
               !.buf = [ bytes |-> cbret.bytes, live |-> ~cbret.null, frees |-> 0 ] ]

\* What the callback reads through its two char pointer arguments.
CallbackReads(call) == [ cmd |-> CStr(call.cmd), json |-> CStr(call.json) ]

\* RETVAL_STRING(result): copies strlen(result) bytes of the buffer into a new
\* zend_string.  Reading a buffer that was already freed is undefined: the
\* bytes copied are then any bytes (garbage).
RETVAL_STRING(x, garbage) ==
    [ x EXCEPT !.log = Append(@, "copy"),
               !.retval = ZString(IF x.buf.live THEN CStr(x.buf.bytes) ELSE garbage) ]

\* free(result)
free(x) ==
    [ x EXCEPT !.log = Append(@, "free"),
               !.buf = [ @ EXCEPT !.live = FALSE, !.frees = @ + 1 ] ]

\* RETURN_FALSE / RETURN_TRUE
RETURN_FALSE(x) == [ x EXCEPT !.retval = ZFalse ]
RETURN_TRUE(x)  == [ x EXCEPT !.retval = ZTrue ]

\* json = (params && params_len > 0) ? params : "{}";
\* params is NULL when the second argument was not passed.
EffectivePayload(args) ==
    IF Len(args) >= 2 /\ Len(args[2].str) > 0 THEN args[2].str ELSE EmptyJson

\* Mutant: the buffer is released before it is copied.
HandleResult_FreeFirst(x, cbret, garbage) ==
    IF cbret.null THEN RETURN_FALSE(x)
    ELSE RETVAL_STRING(free(x), garbage)

\* Mutant: free() is reached on the NULL result too.
HandleResult_FreeNull(x, cbret, garbage) ==
    IF cbret.null THEN RETURN_FALSE(free(x))
    ELSE free(RETVAL_STRING(x, garbage))

\* phptoro_ext.c:98-103: a NULL result is the failure sentinel; a string is
\* copied into the return value and then released.
HandleResult(x, cbret, garbage) ==
    IF cbret.null THEN RETURN_FALSE(x)
    ELSE free(RETVAL_STRING(x, garbage))

\* Mutant: the slot is tested before the arguments are parsed.
zif_phptoro_SlotFirst(args, slot, cbret, garbage) ==
    LET x1 == [ NewExec EXCEPT !.log = Append(@, "read_slot") ]
        parsed == ParseParameters(args, 1, 2, << "string", "string" >>)
    IN  IF slot = NULL
        THEN RETURN_FALSE(php_error_docref(x1, "phptoro: bridge not initialised"))
        ELSE IF parsed # "ok" THEN [ x1 EXCEPT !.status = parsed ]
        ELSE HandleResult(
                 CallNative(x1, slot, args[1].str, EffectivePayload(args), cbret),
                 cbret, garbage)

\* The whole handler.  slot is the value of g_call_fn, cbret what the callback
\* returns if it is called, garbage what a read of freed memory would yield.
zif_phptoro(args, slot, cbret, garbage) ==
    LET parsed == ParseParameters(args, 1, 2, << "string", "string" >>)
        x0 == [ NewExec EXCEPT !.status = parsed ]
    IN  IF parsed # "ok" THEN x0
        ELSE LET x1 == [ x0 EXCEPT !.log = Append(@, "read_slot") ]
             IN  IF slot = NULL
                 THEN RETURN_FALSE(php_error_docref(x1, "phptoro: bridge not initialised"))
                 ELSE HandleResult(
                          CallNative(x1, slot, args[1].str, EffectivePayload(args), cbret),
                          cbret, garbage)

----------------------------------------------------------------------------
(* The runtime's output layer (main/php_output.h), as the wrapper uses it. *)
(*                                                                         *)
(* An output state o holds what one handler execution adds to each sink:   *)
(*   sapi      bytes that reached the SAPI's real output                   *)
(*   handlers  the stack of active output buffers, innermost last          *)
(*   log       the output calls made, in order: the call, the caller, the  *)
(*             nesting level it acted on (0 is the SAPI) and the bytes     *)
(***************************************************************************)

NewOutput(level) ==
    [ sapi |-> << >>, handlers |-> [ i \in 1..level |-> << >> ], log |-> << >> ]

OutEvent(e, by, level, data) == [ e |-> e, by |-> by, level |-> level, data |-> data ]

\* php_output_start_default(): pushes a new, empty, unbounded buffer.
php_output_start_default(o) ==
    [ o EXCEPT !.handlers = Append(@, << >>),
               !.log = Append(@, OutEvent("start", "wrapper", Len(o.handlers) + 1, << >>)) ]

\* php_output_write(str, len): the bytes go to the innermost active buffer, or
\* to the SAPI when no buffer is active.
php_output_write(o, by, data) ==
    LET n == Len(o.handlers)
    IN  [ o EXCEPT !.sapi = IF n = 0 THEN @ \o data ELSE @,
                   !.handlers = IF n = 0 THEN @ ELSE [ @ EXCEPT ![n] = @ \o data ],
                   !.log = Append(@, OutEvent("write", by, n, data)) ]

\* php_output_get_contents(&buf): the innermost buffer's bytes as a string
\* zval, or false when no buffer is active.
php_output_get_contents(o) ==
    IF Len(o.handlers) = 0 THEN ZFalse
    ELSE ZString(o.handlers[Len(o.handlers)])

\* Mutant: the capture buffer is left on the stack.
php_output_discard_Noop(o) == o

\* php_output_discard(): pops the innermost buffer and drops its bytes.
php_output_discard(o) ==
    LET n == Len(o.handlers)
    IN  IF n = 0 THEN o
        ELSE [ o EXCEPT !.handlers = SubSeq(@, 1, n - 1),
                        !.log = Append(@, OutEvent("discard", "wrapper", n, << >>)) ]

\* php_print_info(flag): the stock renderer writes its text (content, chosen
\* by the runtime) to the current output.
php_print_info(o, content) == php_output_write(o, "php_print_info", content)

\* PHPWRITE(p, len) with p pointing at 1-based position pos of buffer s.
PHPWRITE(o, s, pos, len) ==
    php_output_write(o, "wrapper", SubSeq(s, pos, pos + len - 1))

----------------------------------------------------------------------------
(* PHP_FUNCTION(phptoro_phpinfo), phptoro_phpinfo.c:58-96.                 *)

\* Chunks the captured phpinfo text is built from: the anchor, a NUL byte, a
\* letter, and '<' (the anchor's first byte).
ChunkSet == { StyleEnd, << 0 >>, << 97 >>, << 60 >> }

RECURSIVE Concats(_)
Concats(n) ==
    IF n = 0 THEN { << >> }
    ELSE LET shorter == Concats(n - 1)
         IN  shorter \cup { s \o c : s \in shorter, c \in ChunkSet }

\* What php_print_info() may print.
InfoTexts == Concats(MaxChunks)

\* Argument values a script may pass to phpinfo().
PhpinfoArgVals == { ZLong(1), ZArray }

NewWrap(level) ==
    [ status |-> "ok", retval |-> ZUndef, captured |-> ZUndef,
      out |-> NewOutput(level) ]

\* Mutant: the payload is written on the fallback path too.
Splice_PayloadOnMiss(o, html) ==
    LET html_len  == Len(html)
        style_end == strstr(html, StyleEnd)
    IN  IF style_end # 0
        THEN LET before_len == style_end - 1
                 after_len  == html_len - before_len
                 o1 == PHPWRITE(o, html, 1, before_len)
                 o2 == PHPWRITE(o1, PHPTORO_CSS, 1, Len(PHPTORO_CSS))
             IN  PHPWRITE(o2, html, style_end, after_len)
        ELSE PHPWRITE(PHPWRITE(o, PHPTORO_CSS, 1, Len(PHPTORO_CSS)), html, 1, html_len)

\* Lines 79-92: the splice at the first "</style>", or the text unchanged.
Splice(o, html) ==
    LET html_len  == Len(html)
        style_end == strstr(html, StyleEnd)
    IN  IF style_end # 0
        THEN LET before_len == style_end - 1
                 after_len  == html_len - before_len
                 o1 == PHPWRITE(o, html, 1, before_len)
                 o2 == PHPWRITE(o1, PHPTORO_CSS, 1, Len(PHPTORO_CSS))
             IN  PHPWRITE(o2, html, style_end, after_len)
        ELSE PHPWRITE(o, html, 1, html_len)

\* Mutant: the wrapper renders through the installed handler (itself, one
\* level deep) instead of calling the stock renderer directly.
zif_phptoro_phpinfo_Nested(args, level, content) ==
    LET parsed == ParseParameters(args, 0, 1, << "long" >>)
        y0 == [ NewWrap(level) EXCEPT !.status = parsed ]
    IN  IF parsed # "ok" THEN y0
        ELSE LET o1  == php_output_start_default(y0.out)
                 i1  == php_output_start_default(o1)
                 i2  == php_print_info(i1, content)
                 ibuf == php_output_get_contents(i2)
                 i3  == php_output_discard(i2)
                 o2  == IF ibuf.type # "string" \/ Len(ibuf.str) = 0
                        THEN i3 ELSE Splice(i3, ibuf.str)
                 buf == php_output_get_contents(o2)
                 o3  == php_output_discard(o2)
                 y1  == [ y0 EXCEPT !.captured = buf ]
             IN  IF buf.type # "string" \/ Len(buf.str) = 0
                 THEN RETURN_TRUE([ y1 EXCEPT !.out = o3 ])
                 ELSE RETURN_TRUE([ y1 EXCEPT !.out = Splice(o3, buf.str) ])

\* The whole handler.  level is the number of output buffers active when the
\* script calls, content what the stock renderer prints for the flag given
\* (the flag only selects which sections the renderer prints).
zif_phptoro_phpinfo(args, level, content) ==
    LET parsed == ParseParameters(args, 0, 1, << "long" >>)
        y0 == [ NewWrap(level) EXCEPT !.status = parsed ]
    IN  IF parsed # "ok" THEN y0
        ELSE LET o1  == php_output_start_default(y0.out)
                 o2  == php_print_info(o1, content)
                 buf == php_output_get_contents(o2)
                 o3  == php_output_discard(o2)
                 y1  == [ y0 EXCEPT !.captured = buf ]
             IN  IF buf.type # "string" \/ Len(buf.str) = 0
                 THEN RETURN_TRUE([ y1 EXCEPT !.out = o3 ])
                 ELSE RETURN_TRUE([ y1 EXCEPT !.out = Splice(o3, buf.str) ])

\* The stock handler the override replaces: the renderer's text reaches the
\* output that was active at the call.
zif_phpinfo(args, level, content) ==
    LET parsed == ParseParameters(args, 0, 1, << "long" >>)
        y0 == [ NewWrap(level) EXCEPT !.status = parsed ]
    IN  IF parsed # "ok" THEN y0
        ELSE RETURN_TRUE([ y0 EXCEPT !.out = php_print_info(y0.out, content) ])

----------------------------------------------------------------------------
(* The bridge as a state machine.                                          *)

Absent == [ type |-> "absent", handler |-> "none" ]
Internal(h) == [ type |-> "internal", handler |-> h ]
UserFunction == [ type |-> "user", handler |-> "user_code" ]

\* The observation record of a script call: the function called (op), the
\* handler the registry gave (fn), the arguments, the values of g_call_fn and
\* of the output nesting level at the call, what the callback returned if it
\* was called, and the handler's execution record (x for phptoro, y for
\* phpinfo).  A call of phptoro_phpinfo_install() is observed too, with the
\* registry it found (table).  Idle: no call is waiting to be followed up.
Idle ==
    [ op |-> "none", fn |-> "none", args |-> << >>, slot |-> NULL, level |-> 0,
      cbret |-> CNull, x |-> NewExec, y |-> NewWrap(0),
      table |-> [ phptoro |-> Absent, phpinfo |-> Absent ] ]

Init ==
    /\ g_call_fn = NULL
    /\ sapi_module = [ additional_functions |-> NULL, ini_defaults |-> NULL,
                       ini_entries |-> NULL ]
    /\ started = FALSE
    /\ function_table = [ phptoro |-> Absent, phpinfo |-> Absent ]
    /\ ob_level = 0
    /\ preparedEarly = FALSE
    /\ preparedLate = FALSE
    /\ startupSlot = NULL
    /\ reinstalled = FALSE
    /\ last = Idle

\* phptoro_ext_prepare(call_fn), phptoro_ext.c:60-64.  The host may call it
\* with any callback, NULL included, before or after startup.
phptoro_ext_prepare(call_fn) ==
    /\ last.op = "none"
    /\ g_call_fn' = call_fn
    /\ sapi_module' = [ sapi_module EXCEPT
                          !.additional_functions = "phptoro_fn_table",
                          !.ini_defaults = "phptoro_ini_defaults" ]
    /\ preparedEarly' = (preparedEarly \/ ~started)
    /\ preparedLate' = (preparedLate \/ started)
    /\ UNCHANGED << started, function_table, ob_level, startupSlot, reinstalled, last >>

\* phptoro_ext_functions(), phptoro_ext.c:37-39: the function table, for a
\* host that registers it itself.
phptoro_ext_functions == "phptoro_fn_table"

\* The functions the runtime has registered when startup completes: phptoro
\* if sapi_module.additional_functions names its table (phptoro_ext.h:9-15)
\* or the host registered the table it got from phptoro_ext_functions();
\* the built-in phpinfo, unless the configuration disables it.  The
\* registration itself is the runtime's, not the bridge's.
RegisteredAtStartup(additional_functions, hostFunctions, phpinfoDisabled) ==
    [ phptoro |-> IF \/ additional_functions = "phptoro_fn_table"
                     \/ hostFunctions = "phptoro_fn_table"
                  THEN Internal("zif_phptoro") ELSE Absent,
      phpinfo |-> IF phpinfoDisabled THEN Absent ELSE Internal("zif_phpinfo") ]

\* Runtime startup (RiphtSapi::instance()): reads sapi_module once.
\* phptoro_ini_defaults (phptoro_ext.c:56-58) runs if it was installed.
Startup ==
    /\ last.op = "none"
    /\ ~started
    /\ started' = TRUE
    /\ \E hostFunctions \in { NULL, phptoro_ext_functions },
          phpinfoDisabled \in BOOLEAN :
          function_table' =
              RegisteredAtStartup(sapi_module.additional_functions, hostFunctions,
                                  phpinfoDisabled)
    /\ sapi_module' = [ sapi_module EXCEPT
                          !.ini_entries = IF sapi_module.ini_defaults = NULL
                                          THEN @ ELSE "phptoro_ini_entries" ]
    /\ startupSlot' = g_call_fn
    /\ UNCHANGED << g_call_fn, ob_level, preparedEarly, preparedLate, reinstalled,
                    last >>

\* Mutant: a second call puts the stock handler back.
Installed_Toggle(table) ==
    LET fn == table.phpinfo
    IN  IF fn.type # "absent" /\ fn.type = "internal"
        THEN [ table EXCEPT !.phpinfo.handler =
                   IF @ = "zif_phptoro_phpinfo" THEN "zif_phpinfo"
                   ELSE "zif_phptoro_phpinfo" ]
        ELSE table

\* Mutant: the entry's kind is not tested.
Installed_AnyKind(table) ==
    LET fn == table.phpinfo
    IN  IF fn.type # "absent"
        THEN [ table EXCEPT !.phpinfo.handler = "zif_phptoro_phpinfo" ]
        ELSE table

\* phptoro_phpinfo_install(), phptoro_phpinfo.c:104-111.
Installed(table) ==
    LET fn == table.phpinfo
    IN  IF fn.type # "absent" /\ fn.type = "internal"
        THEN [ table EXCEPT !.phpinfo.handler = "zif_phptoro_phpinfo" ]
        ELSE table

phptoro_phpinfo_install ==
    /\ last.op = "none"
    /\ started
    /\ function_table' = Installed(function_table)
    /\ last' = [ Idle EXCEPT !.op = "install", !.slot = g_call_fn,
                             !.level = ob_level, !.table = function_table ]
    /\ reinstalled' = (reinstalled
                       \/ function_table.phpinfo = Internal("zif_phptoro_phpinfo"))
    /\ UNCHANGED << g_call_fn, sapi_module, started, ob_level, preparedEarly,
                    preparedLate, startupSlot >>

\* A script declares its own function phpinfo() (possible only while the
\* name is free, i.e. the built-in is disabled).
DeclareUserPhpinfo ==
    /\ last.op = "none"
    /\ started
    /\ function_table.phpinfo.type = "absent"
    /\ function_table' = [ function_table EXCEPT !.phpinfo = UserFunction ]
    /\ UNCHANGED << g_call_fn, sapi_module, started, ob_level, preparedEarly,
                    preparedLate, startupSlot, reinstalled, last >>

\* A script opens or closes an output buffer of its own.
ObStart ==
    /\ last.op = "none"
    /\ started
    /\ ob_level < MaxObLevel
    /\ ob_level' = ob_level + 1
    /\ UNCHANGED << g_call_fn, sapi_module, started, function_table,
                    preparedEarly, preparedLate, startupSlot, reinstalled, last >>

ObEnd ==
    /\ last.op = "none"
    /\ started
    /\ ob_level > 0
    /\ ob_level' = ob_level - 1
    /\ UNCHANGED << g_call_fn, sapi_module, started, function_table,
                    preparedEarly, preparedLate, startupSlot, reinstalled, last >>

\* The argument lists a script may call with: the first n of (a, b, a).
ArgList(n, a, b) == SubSeq(<< a, b, a >>, 1, n)

\* Mutant: the dispatch clears the slot once it has used it.
CallPhptoro_ClearsSlot ==
    /\ last.op = "none"
    /\ started
    /\ \E n \in 0..3, a \in PhptoroArgVals, b \in PhptoroArgVals,
          cbret \in CbResults, garbage \in CStrings :
          LET args == ArgList(n, a, b)
              fn == function_table.phptoro
              x == IF fn.type = "absent"
                   THEN [ NewExec EXCEPT !.status = "UndefinedFunction" ]
                   ELSE zif_phptoro(args, g_call_fn, cbret, garbage)
          IN  last' = [ Idle EXCEPT
                          !.op = "phptoro",
                          !.args = args,
                          !.slot = g_call_fn,
                          !.level = ob_level,
                          !.fn = fn.handler,
                          !.cbret = IF x.cbCalls = << >> THEN CNull ELSE cbret,
                          !.x = x ]
    /\ g_call_fn' = NULL
    /\ UNCHANGED << sapi_module, started, function_table, ob_level,
                    preparedEarly, preparedLate, startupSlot, reinstalled >>

\* A script calls phptoro(...).  The runtime looks the name up; an unknown
\* name throws "Call to undefined function" and runs no handler.
CallPhptoro ==
    /\ last.op = "none"
    /\ started
    /\ \E n \in 0..3, a \in PhptoroArgVals, b \in PhptoroArgVals,
          cbret \in CbResults, garbage \in CStrings :
          LET args == ArgList(n, a, b)
              fn == function_table.phptoro
              x == IF fn.type = "absent"
                   THEN [ NewExec EXCEPT !.status = "UndefinedFunction" ]
                   ELSE zif_phptoro(args, g_call_fn, cbret, garbage)
          IN  last' = [ Idle EXCEPT
                          !.op = "phptoro",
                          !.args = args,
                          !.slot = g_call_fn,
                          !.level = ob_level,
                          !.fn = fn.handler,
                          !.cbret = IF x.cbCalls = << >> THEN CNull ELSE cbret,
                          !.x = x ]
    /\ UNCHANGED << g_call_fn, sapi_module, started, function_table, ob_level,
                    preparedEarly, preparedLate, startupSlot, reinstalled >>

\* A script calls phpinfo(...): the handler of the registry entry runs.
CallPhpinfo ==
    /\ last.op = "none"
    /\ started
    /\ \E n \in 0..2, a \in PhpinfoArgVals, content \in InfoTexts :
          LET args == ArgList(n, a, a)
              fn == function_table.phpinfo
              y == CASE fn.handler = "zif_phptoro_phpinfo" ->
                          zif_phptoro_phpinfo(args, ob_level, content)
                     [] fn.handler = "zif_phpinfo" ->
                          zif_phpinfo(args, ob_level, content)
                     [] fn.handler = "user_code" -> NewWrap(ob_level)
                     [] OTHER ->
                          [ NewWrap(ob_level) EXCEPT !.status = "UndefinedFunction" ]
          IN  /\ last' = [ Idle EXCEPT !.op = "phpinfo", !.args = args,
                                       !.slot = g_call_fn, !.level = ob_level,
                                       !.fn = fn.handler, !.y = y,
                                       !.table = function_table ]
              /\ ob_level' = Len(y.out.handlers)
    /\ UNCHANGED << g_call_fn, sapi_module, started, function_table, preparedEarly,
                    preparedLate, startupSlot, reinstalled >>

\* The caller goes on after the call returned (or threw).
Resume ==
    /\ last.op # "none"
    /\ last' = Idle
    /\ UNCHANGED << g_call_fn, sapi_module, started, function_table, ob_level,
                    preparedEarly, preparedLate, startupSlot, reinstalled >>

Next ==
    \/ \E call_fn \in Callbacks \cup { NULL } : phptoro_ext_prepare(call_fn)
    \/ Startup
    \/ phptoro_phpinfo_install
    \/ DeclareUserPhpinfo
    \/ ObStart
    \/ ObEnd
    \/ CallPhptoro
    \/ CallPhpinfo
    \/ Resume

Spec == Init /\ [][Next]_vars

----------------------------------------------------------------------------
(* Properties of the dispatch function.                                    *)

BridgeWarning == "phptoro: bridge not initialised"

\* PHP_FUNCTION(phptoro) was entered by the last script call.
DispatchRan == last.op = "phptoro" /\ last.fn = "zif_phptoro"

\* ... and its arguments parsed (a command, and perhaps a payload).
DispatchParsed == DispatchRan /\ last.x.status = "ok"

\* The payload the specification prescribes for a call: "{}" when the second
\* argument is omitted or the empty string, the argument otherwise.
SpecPayload ==
    IF Len(last.args) < 2 THEN << 123, 125 >>
    ELSE IF last.args[2].str = << >> THEN << 123, 125 >>
    ELSE last.args[2].str

Count(seq, e) == Cardinality({ i \in 1..Len(seq) : seq[i] = e })

FirstIndex(seq, e) == CHOOSE i \in 1..Len(seq) : seq[i] = e /\ \A j \in 1..(i - 1) : seq[j] # e

\* C1: every invoke(command, payload) made while a non-null callback is
\* registered calls that callback exactly once, with the command and the
\* effective payload; when the callback returns a string, invoke returns the
\* string's content verbatim, the copy is taken before the release, and the
\* returned buffer is released exactly once.
C1_ExactlyOnceCopyThenRelease ==
    (DispatchParsed /\ last.slot # NULL) =>
        /\ last.x.cbCalls =
               << [ fn |-> last.slot, cmd |-> last.args[1].str, json |-> SpecPayload ] >>
        /\ Count(last.x.log, "call") = 1
        /\ ~last.cbret.null =>
               /\ last.x.retval = ZString(last.cbret.bytes)
               /\ Count(last.x.log, "copy") = 1
               /\ Count(last.x.log, "free") = 1
               /\ FirstIndex(last.x.log, "copy") < FirstIndex(last.x.log, "free")
               /\ last.x.buf.frees = 1
               /\ ~last.x.buf.live

C1_Witness ==
    /\ DispatchParsed
    /\ last.slot = "cb1"
    /\ Len(last.args) = 2
    /\ ~last.cbret.null
    /\ Len(last.cbret.bytes) = MaxStrLen
    /\ last.x.retval = ZString(last.cbret.bytes)
    /\ last.x.buf.frees = 1

\* C2: for every command, an invoke made while the slot is null returns the
\* failure sentinel, emits the bridge-not-initialised warning, and calls no
\* callback and releases no buffer.
C2_NoCallbackSentinel ==
    (DispatchParsed /\ last.slot = NULL) =>
        /\ last.x.retval = ZFalse
        /\ last.x.warnings = << BridgeWarning >>
        /\ last.x.cbCalls = << >>
        /\ Count(last.x.log, "call") = 0
        /\ Count(last.x.log, "free") = 0
        /\ last.x.buf.frees = 0

C2_Witness ==
    /\ DispatchParsed
    /\ last.slot = NULL
    /\ Len(last.args[1].str) > 0
    /\ last.x.retval = ZFalse
    /\ last.x.warnings = << BridgeWarning >>

\* C3 as stated: if prepare never ran before startup, or ran only after
\* startup had completed, a subsequent invoke reports the bridge-not-
\* initialised condition, returns the failure sentinel and invokes no
\* callback.
C3_Original ==
    (DispatchParsed /\ ~preparedEarly) =>
        /\ last.x.warnings = << BridgeWarning >>
        /\ last.x.retval = ZFalse
        /\ last.x.cbCalls = << >>

\* C4 as stated: with the payload omitted or given as the empty string the
\* callback is passed the literal "{}"; a non-empty payload is passed
\* unchanged; hence the callback never receives an empty or null payload.
C4_Original ==
    (DispatchParsed /\ last.slot # NULL) =>
        /\ Len(last.x.cbCalls) = 1
        /\ last.x.cbCalls[1].json = SpecPayload
        /\ CallbackReads(last.x.cbCalls[1]).json # << >>

\* C5: when the registered callback returns NULL, invoke returns the failure
\* sentinel, raises no warning and releases nothing.
C5_NullResultSentinel ==
    (DispatchParsed /\ last.slot # NULL /\ last.x.cbCalls # << >> /\ last.cbret.null) =>
        /\ last.x.retval = ZFalse
        /\ last.x.warnings = << >>
        /\ Count(last.x.log, "free") = 0
        /\ Count(last.x.log, "copy") = 0
        /\ last.x.buf.frees = 0

C5_Witness ==
    /\ DispatchParsed
    /\ last.slot = "cb2"
    /\ Len(last.x.cbCalls) = 1
    /\ last.cbret.null
    /\ last.x.retval = ZFalse

\* C6: invoke without the command argument fails with an argument-count
\* error before dispatch: no callback is called and the slot is not even
\* read, whether or not a callback is registered.
C6_ArityErrorBeforeDispatch ==
    (DispatchRan /\ Len(last.args) = 0) =>
        /\ last.x.status = "ArgumentCountError"
        /\ last.x.cbCalls = << >>
        /\ last.x.log = << >>
        /\ last.x.warnings = << >>
        /\ last.x.retval = ZUndef

C6_Witness ==
    /\ DispatchRan
    /\ Len(last.args) = 0
    /\ last.slot \in Callbacks
    /\ last.x.status = "ArgumentCountError"
    /\ last.x.log = << >>

----------------------------------------------------------------------------
(* Properties of the phpinfo() wrapper.                                    *)

\* PHP_FUNCTION(phptoro_phpinfo) was entered by the last script call.
WrapperRan == last.op = "phpinfo" /\ last.fn = "zif_phptoro_phpinfo"

\* ... and got past its argument parsing.
WrapperParsed == WrapperRan /\ last.y.status = "ok"

\* The output calls of the last handler execution.
OutLog == last.y.out.log

IsWrapperWrite(ev) == ev.e = "write" /\ ev.by = "wrapper"

WrapperWrites == SelectSeq(OutLog, IsWrapperWrite)

\* The bytes the last handler execution added to the sink that was active
\* when the script called (the SAPI, or the script's innermost buffer).
SinkBytes ==
    IF last.level = 0 THEN last.y.out.sapi
    ELSE IF last.level <= Len(last.y.out.handlers)
         THEN last.y.out.handlers[last.level] ELSE << >>

CapturedEmpty == last.y.captured.type # "string" \/ last.y.captured.str = << >>

\* The anchor occurs somewhere in the byte string s.
HasAnchor(s) == \E i \in 1..Len(s) : OccursAt(s, StyleEnd, i)

FirstAnchor(s) ==
    CHOOSE i \in 1..Len(s) :
        OccursAt(s, StyleEnd, i) /\ \A j \in 1..(i - 1) : ~OccursAt(s, StyleEnd, j)

\* C7 as stated: when the captured content is absent or empty the wrapper
\* reports failure and writes nothing to the real sink, and that is the only
\* case in which it reports failure.
C7_Original ==
    WrapperParsed =>
        /\ CapturedEmpty =>
               /\ last.y.retval = ZFalse
               /\ WrapperWrites = << >>
               /\ SinkBytes = << >>
        /\ last.y.retval = ZFalse => CapturedEmpty

\* C8 as stated: for every non-empty captured content holding at least one
\* anchor, the wrapper writes to the real sink exactly prefix + payload +
\* suffix, split at the first anchor occurrence (the suffix begins with the
\* anchor), the payload once, and reports success.
C8_Original ==
    (WrapperParsed /\ ~CapturedEmpty /\ HasAnchor(last.y.captured.str)) =>
        LET html == last.y.captured.str
            p == FirstAnchor(html)
        IN  /\ SinkBytes = SubSeq(html, 1, p - 1) \o PHPTORO_CSS \o SubSeq(html, p, Len(html))
            /\ last.y.retval = ZTrue

\* C9: for every non-empty captured content without any anchor occurrence
\* the wrapper writes the captured content to the real sink unchanged, in one
\* write and without the payload, and reports success.
C9_FallbackUnchanged ==
    (WrapperParsed /\ ~CapturedEmpty /\ ~HasAnchor(last.y.captured.str)) =>
        /\ SinkBytes = last.y.captured.str
        /\ Len(WrapperWrites) = 1
        /\ WrapperWrites[1].data = last.y.captured.str
        /\ last.y.retval = ZTrue

C9_Witness ==
    /\ WrapperParsed
    /\ Len(last.y.captured.str) = MaxChunks
    /\ \E i \in 1..Len(last.y.captured.str) : last.y.captured.str[i] = 60
    /\ \E i \in 1..Len(last.y.captured.str) : last.y.captured.str[i] = 0
    /\ ~HasAnchor(last.y.captured.str)
    /\ SinkBytes = last.y.captured.str
    /\ last.y.retval = ZTrue

\* C10: on every exit path of the wrapper (argument error, empty capture,
\* anchor found, anchor not found) it has opened as many capture buffers as
\* it has closed, so the sink active after the call is the one active before
\* it; and every write of final content comes after the capture was ended
\* and goes to that sink, not to the capture buffer.
C10_CaptureScoped ==
    WrapperRan =>
        /\ Cardinality({ i \in 1..Len(OutLog) : OutLog[i].e = "start" })
             = Cardinality({ i \in 1..Len(OutLog) : OutLog[i].e = "discard" })
        /\ Len(last.y.out.handlers) = last.level
        /\ ob_level = last.level
        /\ \A i \in 1..Len(OutLog) :
               IsWrapperWrite(OutLog[i]) =>
                   /\ OutLog[i].level = last.level
                   /\ \E j \in 1..(i - 1) : OutLog[j].e = "discard"
                   /\ \A j \in (i + 1)..Len(OutLog) : OutLog[j].e # "discard"
        /\ last.y.status # "ok" => OutLog = << >>

C10_Witness ==
    /\ WrapperParsed
    /\ last.level >= 1
    /\ Len(WrapperWrites) = 3
    /\ Cardinality({ i \in 1..Len(OutLog) : OutLog[i].e = "start" }) = 1
    /\ ob_level = last.level
    /\ SinkBytes # << >>

----------------------------------------------------------------------------
(* Properties of the override's installation.                              *)

\* phptoro_phpinfo_install() was the last call.
InstallRan == last.op = "install"

\* C11: install() called when the target entry is absent from the function
\* registry, or present but not of built-in kind, leaves the whole registry
\* (every entry's kind and handler) unchanged and reports no error.
C11_InstallNoOp ==
    (InstallRan /\ last.table.phpinfo.type # "internal") =>
        /\ function_table = last.table
        /\ last.x.status = "ok"
        /\ last.x.warnings = << >>

C11_Witness ==
    /\ InstallRan
    /\ last.table.phpinfo = UserFunction
    /\ last.table.phptoro = Internal("zif_phptoro")
    /\ function_table = last.table

\* The phpinfo entry is a built-in whose handler is the wrapper.
Overridden(table) == table.phpinfo = Internal("zif_phptoro_phpinfo")

\* C12: once install() has run on a present built-in entry, that entry's
\* handler is the wrapper in every later state: no operation of the bridge
\* or of a script restores the stock handler or changes another registry
\* entry, and every later call of phpinfo() executes the wrapper.
C12_OverridePermanent ==
    /\ []((InstallRan /\ last.table.phpinfo.type = "internal") =>
            /\ Overridden(function_table)
            /\ function_table.phptoro = last.table.phptoro)
    /\ [][Overridden(function_table) => function_table' = function_table]_vars
    /\ []((last.op = "phpinfo" /\ Overridden(last.table)) =>
            /\ WrapperRan
            /\ Overridden(function_table)
            /\ last.y.status = "ok" =>
                   Cardinality({ i \in 1..Len(OutLog) :
                                   OutLog[i].e = "start" /\ OutLog[i].by = "wrapper" }) = 1)

C12_Witness ==
    /\ WrapperParsed
    /\ Overridden(last.table)
    /\ Overridden(function_table)
    /\ last.slot \in Callbacks
    /\ Len(WrapperWrites) = 3

----------------------------------------------------------------------------
(* The callback slot after startup.                                        *)

\* C13: once the runtime accepts script calls, dispatch only reads the slot:
\* no invoke (on any of its paths), install or wrapper execution, nor the
\* return from one, changes g_call_fn, so as long as the host does not call
\* prepare again every invoke dispatches to the callback that the prepare
\* before startup stored.
C13_SlotReadOnlyAfterStartup ==
    /\ [][(started /\ (last'.op \in { "phptoro", "phpinfo", "install" }
                       \/ last.op \in { "phptoro", "phpinfo", "install" })) =>
              /\ g_call_fn' = g_call_fn
              /\ last'.op # "none" => last'.slot = g_call_fn]_vars
    /\ []((started /\ ~preparedLate) => g_call_fn = startupSlot)
    /\ []((DispatchParsed /\ ~preparedLate) =>
              /\ last.slot = startupSlot
              /\ startupSlot # NULL =>
                     /\ Len(last.x.cbCalls) = 1
                     /\ last.x.cbCalls[1].fn = startupSlot)

C13_Witness ==
    /\ DispatchParsed
    /\ ~preparedLate
    /\ startupSlot = "cb2"
    /\ g_call_fn = "cb2"
    /\ Overridden(function_table)
    /\ Len(last.x.cbCalls) = 1
    /\ last.x.cbCalls[1].fn = "cb2"

----------------------------------------------------------------------------
(* Repeated installation.                                                  *)

\* Runs of the stock renderer, and writes of the injection payload, during
\* the last handler execution.
RendererRuns ==
    Cardinality({ i \in 1..Len(OutLog) : OutLog[i].by = "php_print_info" })

PayloadWrites ==
    Cardinality({ i \in 1..Len(OutLog) :
                    IsWrapperWrite(OutLog[i]) /\ OutLog[i].data = PHPTORO_CSS })

\* C14 as stated: install() called two or more times leaves the registry as
\* one call leaves it, and a later call of phpinfo() still runs the stock
\* renderer exactly once and inserts the injection payload exactly once.
C14_Original ==
    /\ (InstallRan /\ Overridden(last.table)) => function_table = last.table
    /\ (WrapperParsed /\ reinstalled) =>
           /\ RendererRuns = 1
           /\ PayloadWrites = 1

\* C14 (amended): install() called two or more times leaves the registry as
\* one call leaves it, and a later valid call of phpinfo() still opens one
\* capture, runs the stock renderer exactly once and inserts the injection
\* payload at most once: once when the wrapper's scan of the captured text
\* finds the anchor, not at all on the empty-capture and fallback paths.
C14_InstallIdempotent ==
    /\ (InstallRan /\ Overridden(last.table)) =>
           /\ function_table = last.table
           /\ reinstalled
    /\ (WrapperParsed /\ reinstalled) =>
           /\ Overridden(last.table)
           /\ RendererRuns = 1
           /\ Cardinality({ i \in 1..Len(OutLog) : OutLog[i].e = "start" }) = 1
           /\ PayloadWrites <= 1
           /\ PayloadWrites = 1 <=>
                  (~CapturedEmpty /\ strstr(last.y.captured.str, StyleEnd) # 0)

C14_Witness ==
    /\ WrapperParsed
    /\ reinstalled
    /\ Overridden(function_table)
    /\ RendererRuns = 1
    /\ PayloadWrites = 1
    /\ Len(last.y.captured.str) > Len(StyleEnd)

============================================================================
